---------------------------- MODULE Spec2Model ----------------------------
(***************************************************************************)
(* Face-identity pipeline of the smart attendance system:                  *)
(*   - FaceRecognizer (src/src/core/face_recognizer.py) and the files it   *)
(*     writes and reads,                                                   *)
(*   - the two training entry points (train_model.py, TrainingService),    *)
(*   - the two attendance windows and the attendance store.                *)
(***************************************************************************)
EXTENDS Integers, Sequences, FiniteSets, TLC

(***************************************************************************)
(* Bounds of the model.                                                    *)
(***************************************************************************)
MaxLabels == 2          \* labels that a train/update call may carry: 0..MaxLabels-1
MaxRuns == 2            \* successful training runs in one behaviour

(***************************************************************************)
(* Program constants.                                                      *)
(***************************************************************************)
RECOGNITION_THRESHOLD == 50

Labels == 0 .. (MaxLabels - 1)
\* values a label map may hold: a placeholder label, or a student id
StudentIds == {101, 102}
\* Python's None as an identity
NoneId == -1
\* the two distances on either side of the rejection test of predict
ThresholdEdge == {RECOGNITION_THRESHOLD, RECOGNITION_THRESHOLD + 1}

SetOf(s) == {s[i] : i \in 1 .. Len(s)}
EmptyMap == [l \in {} |-> 0]

(***************************************************************************)
(* Paths are sequences of path pieces, so that str.replace can be modelled *)
(* by what it does: every occurrence of the piece '.yml' is replaced.      *)
(***************************************************************************)
TRAINED_MODEL_PATH == <<"trained_model", ".yml">>
XmlModelPath == <<"tmp_model", ".xml">>
ModelPaths == {TRAINED_MODEL_PATH, XmlModelPath}

\* model_path.replace('.yml', '_labels.json')
LabelMapPath(p) == [i \in 1 .. Len(p) |-> IF p[i] = ".yml" THEN "_labels.json" ELSE p[i]]

\* the files of train_model.py under data/models
SCRIPT_MODEL_PATH == <<"face_recognition_model", ".yml">>
LABEL_MAPPING_PATH == <<"label_mapping", ".json">>
METADATA_PATH == <<"training_metadata", ".json">>
BACKUP_PATH == <<"backups/", "model_timestamp", ".yml">>
ScriptPaths ==
    {SCRIPT_MODEL_PATH, LabelMapPath(SCRIPT_MODEL_PATH), LABEL_MAPPING_PATH,
     METADATA_PATH, BACKUP_PATH}

AllPaths == ModelPaths \cup {LabelMapPath(p) : p \in ModelPaths} \cup ScriptPaths

(***************************************************************************)
(* The cv2 LBPH classifier held by a FaceRecognizer: untrained ("none"),   *)
(* trained by a training run on a set of labels ("lbph"), or whatever        *)
(* read() makes of a file that is not a model blob ("junk").               *)
(***************************************************************************)
NoClf == [kind |-> "none", run |-> 0, labels |-> {}]
JunkClf == [kind |-> "junk", run |-> 0, labels |-> {}]
Lbph(n, ls) == [kind |-> "lbph", run |-> n, labels |-> ls]

(***************************************************************************)
(* File contents: absent, a model blob, a JSON label-map document (string  *)
(* keys), or a truncated JSON document left by a failed json.dump.         *)
(***************************************************************************)
Absent == [kind |-> "absent", clf |-> NoClf, doc |-> EmptyMap, run |-> 0]
Blob(c) == [kind |-> "blob", clf |-> c, doc |-> EmptyMap, run |-> c.run]
JsonDoc(m, n) == [kind |-> "json", clf |-> NoClf, doc |-> m, run |-> n]
Partial == [kind |-> "partial", clf |-> NoClf, doc |-> EmptyMap, run |-> 0]
\* training_metadata.json
MetaDoc(nStudents, nImages, n) ==
    [kind |-> "meta", clf |-> NoClf,
     doc |-> [k \in {"num_students", "num_images"} |->
                 IF k = "num_students" THEN nStudents ELSE nImages],
     run |-> n]

(***************************************************************************)
(* json.dump turns int keys into strings; load_model turns them back with  *)
(* int(k).                                                                 *)
(***************************************************************************)
Digits == <<"0", "1", "2", "3", "4", "5", "6", "7", "8", "9">>
StrOfInt(n) == Digits[n + 1]
IntOfStr(s) == CHOOSE n \in 0 .. 9 : Digits[n + 1] = s

\* json.dump(self.label_map, f, indent=2): the document written
JsonDump(m) == [k \in {StrOfInt(l) : l \in DOMAIN m} |-> m[IntOfStr(k)]]
\* {int(k): v for k, v in label_map_str.items()}
JsonKeysToInt(doc) == [l \in {IntOfStr(k) : k \in DOMAIN doc} |-> doc[StrOfInt(l)]]

(***************************************************************************)
(* FaceRecognizer.__init__                                                 *)
(***************************************************************************)
NewRecognizer ==
    [is_trained |-> FALSE, label_map |-> EmptyMap, np |-> FALSE,
     clf |-> NoClf, mapRun |-> 0]


(***************************************************************************)
(* FaceRecognizer.train: the label map built from the labels and the       *)
(* optional student ids (zip of the two sorted sets, else label -> label). *)
(***************************************************************************)
Rank(x, S) == Cardinality({y \in S : y <= x})
Nth(S, k) == CHOOSE v \in S : Rank(v, S) = k

TrainLabelMap(labels, sids) ==
    LET ls == SetOf(labels)
        ss == SetOf(sids)
    IN  IF Len(sids) > 0 /\ Len(sids) = Cardinality(ls)
        THEN [l \in {x \in ls : Rank(x, ls) <= Cardinality(ss)} |-> Nth(ss, Rank(l, ls))]
        ELSE [l \in ls |-> l]

\* nFaces = len(faces); labels = the label list; sids = student_ids (<<>> for
\* None or []); np = labels is a numpy array, so the label-map keys are numpy
\* ints; cvOk = cv2's train does not raise; n = the number of this training run.
Train(rec, nFaces, labels, sids, np, cvOk, n) ==
    IF nFaces = 0 \/ Len(labels) = 0 THEN [ok |-> FALSE, cause |-> "empty", rec |-> rec]
    ELSE IF nFaces # Len(labels) THEN [ok |-> FALSE, cause |-> "mismatch", rec |-> rec]
    ELSE IF ~cvOk THEN [ok |-> FALSE, cause |-> "cv2", rec |-> rec]
    ELSE [ok |-> TRUE, cause |-> "none",
          rec |-> [is_trained |-> TRUE,
                   label_map |-> TrainLabelMap(labels, sids),
                   np |-> np,
                   clf |-> Lbph(n, SetOf(labels)),
                   mapRun |-> n]]

(***************************************************************************)
(* FaceRecognizer.predict.  raw is what cv2's predict does for the image:  *)
(* it raises, or returns (label, dist).  The result is always a tuple.     *)
(***************************************************************************)
PredictTuple(id, dist) == [kind |-> "tuple", id |-> id, dist |-> dist]
PredictRaise == [kind |-> "raise", id |-> NoneId, dist |-> 0]
NoResult == [kind |-> "none", id |-> NoneId, dist |-> 0]
\* train ended by a return statement (it has no raise, and catches cv2's
\* errors); cause = the branch it returned from
TrainReturn(cause) == [kind |-> "return", id |-> NoneId, dist |-> 0, cause |-> cause]

\* what cv2's predict can do on a classifier, with distances among ds
ClfOutputs(clf, ds) ==
    IF clf.kind = "lbph"
    THEN {[raises |-> FALSE, label |-> l, dist |-> d] : l \in clf.labels, d \in ds}
         \cup {[raises |-> TRUE, label |-> 0, dist |-> 0]}
    ELSE IF clf.kind = "junk"
    THEN {[raises |-> TRUE, label |-> 0, dist |-> 0],
          [raises |-> FALSE, label |-> NoneId, dist |-> 100]}
    ELSE {[raises |-> TRUE, label |-> 0, dist |-> 0]}

PredictUntrained(rec) == PredictTuple(NoneId, 0)

\* predict when Settings.RECOGNITION_THRESHOLD is `threshold`
PredictWith(rec, raw, threshold) ==
    IF ~rec.is_trained THEN PredictUntrained(rec)
    ELSE IF raw.raises THEN PredictTuple(NoneId, 0)
    ELSE IF raw.dist > threshold THEN PredictTuple(NoneId, raw.dist)
    ELSE PredictTuple(IF raw.label \in DOMAIN rec.label_map
                      THEN rec.label_map[raw.label] ELSE NoneId,
                      raw.dist)

\* a predict that maps the label whatever the distance
PredictUnthresholded(rec, raw) ==
    IF ~rec.is_trained \/ raw.raises THEN PredictTuple(NoneId, 0)
    ELSE PredictTuple(IF raw.label \in DOMAIN rec.label_map
                      THEN rec.label_map[raw.label] ELSE NoneId,
                      raw.dist)

Predict(rec, raw) == PredictWith(rec, raw, RECOGNITION_THRESHOLD)

(***************************************************************************)
(* FaceRecognizer.save_model, in its two writes.                           *)
(***************************************************************************)
\* self.recognizer.save(model_path)
SaveBlob(rec, path, files) == [files EXCEPT ![path] = Blob(rec.clf)]

\* json.dump raises TypeError on numpy-int keys (after '{' has been written)
JsonSerialisable(rec) == ~rec.np \/ DOMAIN rec.label_map = {}

\* with open(label_map_path, 'w') as f: json.dump(self.label_map, f, indent=2)
\* ioOk = the write itself does not fail
SaveLabels(rec, path, files, ioOk) ==
    LET lp == LabelMapPath(path)
    IN  IF JsonSerialisable(rec) /\ ioOk
        THEN [ok |-> TRUE,
              files |-> [files EXCEPT ![lp] = JsonDoc(JsonDump(rec.label_map), rec.mapRun)]]
        ELSE [ok |-> FALSE, files |-> [files EXCEPT ![lp] = Partial]]

(***************************************************************************)
(* FaceRecognizer.load_model.  junkRaises = read() raises on a file that   *)
(* is not a model blob (otherwise it yields a degenerate classifier).      *)
(***************************************************************************)
LoadLabelMapMissing(rec) ==
    [rec EXCEPT !.label_map = EmptyMap, !.np = FALSE, !.mapRun = 0, !.is_trained = TRUE]

\* a load_model that clears is_trained when it fails
LoadModelResetting(rec, path, files, junkRaises) ==
    LET lp == LabelMapPath(path)
        f == files[path]
        bad == [rec EXCEPT !.is_trained = FALSE]
    IN  IF f.kind = "absent" THEN [ok |-> FALSE, rec |-> bad]
        ELSE IF f.kind # "blob" /\ junkRaises THEN [ok |-> FALSE, rec |-> bad]
        ELSE LET r1 == [rec EXCEPT !.clf = IF f.kind = "blob" THEN f.clf ELSE JunkClf]
             IN  IF files[lp].kind = "absent"
                 THEN [ok |-> TRUE, rec |-> LoadLabelMapMissing(r1)]
                 ELSE IF files[lp].kind = "json"
                 THEN [ok |-> TRUE,
                       rec |-> [r1 EXCEPT !.label_map = JsonKeysToInt(files[lp].doc),
                                          !.np = FALSE,
                                          !.mapRun = files[lp].run,
                                          !.is_trained = TRUE]]
                 ELSE [ok |-> FALSE, rec |-> [r1 EXCEPT !.is_trained = FALSE]]

LoadModel(rec, path, files, junkRaises) ==
    LET lp == LabelMapPath(path)
        f == files[path]
    IN  IF f.kind = "absent" THEN [ok |-> FALSE, rec |-> rec]
        ELSE IF f.kind # "blob" /\ junkRaises THEN [ok |-> FALSE, rec |-> rec]
        ELSE LET r1 == [rec EXCEPT !.clf = IF f.kind = "blob" THEN f.clf ELSE JunkClf]
             IN  IF files[lp].kind = "absent"
                 THEN [ok |-> TRUE, rec |-> LoadLabelMapMissing(r1)]
                 ELSE IF files[lp].kind = "json"
                 THEN [ok |-> TRUE,
                       rec |-> [r1 EXCEPT !.label_map = JsonKeysToInt(files[lp].doc),
                                          !.np = FALSE,
                                          !.mapRun = files[lp].run,
                                          !.is_trained = TRUE]]
                 ELSE [ok |-> FALSE, rec |-> r1]

(***************************************************************************)
(* FaceRecognizer.update_model                                             *)
(***************************************************************************)
UpdateModel(rec, labels, cvOk) ==
    IF ~rec.is_trained THEN [ok |-> FALSE, rec |-> rec]
    ELSE IF ~cvOk THEN [ok |-> FALSE, rec |-> rec]
    ELSE [ok |-> TRUE, rec |-> [rec EXCEPT !.clf.labels = @ \cup SetOf(labels)]]


(***************************************************************************)
(* State.                                                                  *)
(*   recs    the FaceRecognizer objects of the process                     *)
(*   files   the files on disk, by path                                    *)
(*   savePc  the save_model call that has written the model blob and not   *)
(*           yet the label map (r = 0: none)                               *)
(*   last    the last operation and its outcome                            *)
(*   runs    the number of successful training runs so far                 *)
(*   modelPath  the model path the callers pass to save_model/load_model   *)
(*   cams    the components that hold an open handle on the camera device  *)
(*   reg     the student registration window: "closed", "idle" (open, not  *)
(*           capturing) or "capturing"                                     *)
(*   appTrain  the training thread of the main window: "idle", or          *)
(*           "trained" between recognizer.train and save_model             *)
(*   capture the capture loop of the registration window                   *)
(*   mp      the mark_present calls in progress, by caller                 *)
(*   xf      the last extract_face call: its arguments and its result      *)
(***************************************************************************)
VARIABLES recs, files, savePc, last, runs, modelPath, store, trainRes,
          rows, writes, calledFor, uniq, nSessions, win, accepts, ev,
          cams, reg, appTrain, capture, mp, xf

recVars == <<recs, files, savePc, last, runs, modelPath>>
trainVars == <<store, trainRes>>
sessVars == <<rows, writes, calledFor, nSessions, win, accepts, ev>>
uiVars == <<cams, reg, appTrain>>
\* what no handler of the attendance windows assigns
restVars == <<uniq, capture, mp, xf>>
nonRecVars == <<trainVars, sessVars, uiVars, restVars>>
vars == <<recVars, trainVars, sessVars, uiVars, restVars>>

MaxFaces == 2           \* faces (and labels) given to one train/update call

RecIds == {1, 2}
\* label lists as the callers build them: one label per face, in the order
\* the labels were assigned (non-decreasing)
LabelSeqs ==
    {s \in UNION {[1 .. n -> Labels] : n \in 0 .. MaxFaces} :
        \A i \in 1 .. Len(s) - 1 : s[i] <= s[i + 1]}
\* student-id lists; train looks at their length and their set only
SidSeqs ==
    {s \in UNION {[1 .. n -> StudentIds] : n \in 0 .. MaxLabels} :
        \A i \in 1 .. Len(s) - 1 : s[i] <= s[i + 1]}

TrainCall(nFaces, labels, sids, cvOk) ==
    [nFaces |-> nFaces, labels |-> labels, sids |-> sids, cvOk |-> cvOk]
\* the calls of train: every well-formed one, and one call for each way to
\* fail (no data, lengths that differ, an error raised by cv2)
TrainCalls ==
    {TrainCall(Len(l), l, s, TRUE) : l \in LabelSeqs \ {<<>>}, s \in SidSeqs}
    \cup {TrainCall(0, <<>>, <<>>, TRUE), TrainCall(2, <<0>>, <<>>, TRUE),
          TrainCall(1, <<0>>, <<>>, FALSE)}
\* the calls of update_model: every label list, and one error raised by cv2
UpdateCalls ==
    {TrainCall(Len(l), l, <<>>, TRUE) : l \in LabelSeqs}
    \cup {TrainCall(1, <<0>>, <<>>, FALSE)}

(***************************************************************************)
(* Training: train_model.py (the script) and TrainingService.  store is    *)
(* what the entry point enumerates, in enumeration order: one entry per    *)
(* identity with its id, whether the directory name resolves to a student, *)
(* the number of image files and how many of them cv2.imread can read.     *)
(***************************************************************************)
MaxDirs == 3            \* identities enumerated by one training run
SCRIPT_MIN_IMAGES == 7
IMAGES_PER_STUDENT == 30

SidPool == 101 .. (100 + MaxDirs)
ImageCounts == {SCRIPT_MIN_IMAGES - 1, SCRIPT_MIN_IMAGES, IMAGES_PER_STUDENT}
\* the images of an entry that no loader reads (too few, or no student for
\* the directory) are not told apart
Entries ==
    {e \in [sid : SidPool, known : BOOLEAN, nImg : ImageCounts,
            nOk : 0 .. IMAGES_PER_STUDENT] :
        /\ e.nOk \in {0, e.nImg - 1, e.nImg}
        /\ e.nImg < SCRIPT_MIN_IMAGES => e.nOk = e.nImg
        /\ ~e.known => (e.nImg = IMAGES_PER_STUDENT /\ e.nOk = e.nImg)}
Stores ==
    {s \in UNION {[1 .. n -> Entries] : n \in 0 .. MaxDirs} :
        \A i, j \in 1 .. Len(s) : i # j => s[i].sid # s[j].sid}

Assign(m, k, v) == [l \in DOMAIN m \cup {k} |-> IF l = k THEN v ELSE m[l]]
Repeat(v, n) == [j \in 1 .. n |-> v]
Range(m) == {m[k] : k \in DOMAIN m}

NoData == [none |-> TRUE, nFaces |-> 0, labels |-> <<>>, mapping |-> EmptyMap,
           sids |-> <<>>]

\* the loop of train_model.py's load_training_data over the directories
RECURSIVE ScriptScan(_, _, _)
ScriptScan(st, i, acc) ==
    IF i > Len(st) THEN acc
    ELSE LET e == st[i]
             named == [acc EXCEPT !.mapping = Assign(acc.mapping, acc.counter, e.sid)]
         IN  IF ~e.known THEN ScriptScan(st, i + 1, acc)
             ELSE IF e.nImg < SCRIPT_MIN_IMAGES THEN ScriptScan(st, i + 1, named)
             ELSE ScriptScan(st, i + 1,
                     [named EXCEPT !.nFaces = @ + e.nOk,
                                   !.labels = @ \o Repeat(acc.counter, e.nOk),
                                   !.counter = @ + 1])

\* train_model.py load_training_data: (faces, labels, label_mapping), or
\* (None, None, None) without students or without faces
ScriptLoad(st) ==
    LET acc == ScriptScan(st, 1, [nFaces |-> 0, labels |-> <<>>,
                                  mapping |-> EmptyMap, counter |-> 0])
    IN  IF \A i \in 1 .. Len(st) : ~st[i].known THEN NoData
        ELSE IF acc.nFaces = 0 THEN NoData
        ELSE [none |-> FALSE, nFaces |-> acc.nFaces, labels |-> acc.labels,
              mapping |-> acc.mapping, sids |-> <<>>]

\* the loop of TrainingService.load_training_data over the students (a
\* directory without a student is not among them)
RECURSIVE ServiceScan(_, _, _)
ServiceScan(st, i, acc) ==
    IF i > Len(st) THEN acc
    ELSE LET e == st[i]
         IN  IF ~e.known THEN ServiceScan(st, i + 1, acc)
             ELSE IF e.nImg < IMAGES_PER_STUDENT THEN ServiceScan(st, i + 1, acc)
             ELSE LET read == [acc EXCEPT !.nFaces = @ + e.nOk,
                                          !.labels = @ \o Repeat(acc.counter, e.nOk)]
                  IN  IF e.nImg > 0
                      THEN ServiceScan(st, i + 1,
                              [read EXCEPT !.sids = Append(@, e.sid),
                                           !.counter = @ + 1])
                      ELSE ServiceScan(st, i + 1, read)

\* TrainingService.load_training_data: (faces, labels, student_ids)
ServiceLoad(st) ==
    LET acc == ServiceScan(st, 1, [nFaces |-> 0, labels |-> <<>>,
                                   sids |-> <<>>, counter |-> 0])
    IN  [none |-> FALSE, nFaces |-> acc.nFaces, labels |-> acc.labels,
         mapping |-> EmptyMap, sids |-> acc.sids]

\* FaceRecognizer.save_model in one piece (no crash in between)
SaveModel(rec, path, fs) ==
    IF ~rec.is_trained THEN [ok |-> FALSE, files |-> fs]
    ELSE SaveLabels(rec, path, SaveBlob(rec, path, fs), TRUE)

\* train_model.py train_model: a new recognizer is trained on the numpy
\* label array, saved (results ignored), then label_mapping.json, the
\* metadata and the backup copy are written
ScriptTrainModel(d, fs, n) ==
    LET t == Train(NewRecognizer, d.nFaces, d.labels, <<>>, TRUE, TRUE, n)
        s == SaveModel(t.rec, SCRIPT_MODEL_PATH, fs)
        f1 == [s.files EXCEPT ![LABEL_MAPPING_PATH] = JsonDoc(JsonDump(d.mapping), n)]
        f2 == [f1 EXCEPT ![METADATA_PATH] =
                  MetaDoc(Cardinality(DOMAIN d.mapping), d.nFaces, n)]
    IN  IF f2[SCRIPT_MODEL_PATH].kind = "absent"
        THEN [ok |-> FALSE, rec |-> t.rec, files |-> f2, saved |-> s.ok]
        ELSE [ok |-> TRUE, rec |-> t.rec, saved |-> s.ok,
              files |-> [f2 EXCEPT ![BACKUP_PATH] = f2[SCRIPT_MODEL_PATH]]]

TrainResult(entry, ok, trained, saved, d) ==
    [entry |-> entry, ok |-> ok, trained |-> trained, saved |-> saved,
     nFaces |-> d.nFaces, labels |-> d.labels, mapping |-> d.mapping,
     sids |-> d.sids]

(***************************************************************************)
(* Attendance: the store (table attendance), AttendanceLogger.mark_present *)
(* and the accept paths of the two attendance windows.  An identity is     *)
(* what predict returned for an accepted face: a student id in             *)
(* take_attendance.py, a registration number in take_attendance_simple.py. *)
(***************************************************************************)
MaxSessions == 2        \* class sessions created in one behaviour
MaxWrites == 2          \* INSERTs executed for one (student, session)

Sessions == 1 .. MaxSessions
NoSession == 0
\* the identities that have a row in table students
DbStudents == {101}
Pairs == StudentIds \X Sessions
EXCELLENT_BAND == 50    \* take_attendance_simple.py: confidence < 50
GOOD_BAND == 80         \* take_attendance_simple.py: confidence < 80
\* the distances cv2 reports for the faces of a session: at and around the
\* threshold of predict and the band limits of the window
FrameDistances ==
    {RECOGNITION_THRESHOLD - 1, RECOGNITION_THRESHOLD, RECOGNITION_THRESHOLD + 1,
     GOOD_BAND}

\* DatabaseOperations.check_attendance_marked
CheckAttendanceMarked(rws, p) == rws[p] > 0

\* DatabaseOperations.mark_attendance: INSERT OR REPLACE; uq = the table
\* has a uniqueness constraint on (student_id, session_id)
DbMarkAttendance(rws, uq, p) ==
    [rws EXCEPT ![p] = IF uq /\ @ > 0 THEN @ ELSE @ + 1]

\* a mark_present that inserts without looking for an earlier record
MarkPresentUnchecked(rws, uq, p) ==
    [ret |-> TRUE, wrote |-> TRUE, rows |-> DbMarkAttendance(rws, uq, p)]

\* AttendanceLogger.mark_present
MarkPresent(rws, uq, p) ==
    IF CheckAttendanceMarked(rws, p)
    THEN [ret |-> FALSE, wrote |-> FALSE, rows |-> rws]
    ELSE [ret |-> TRUE, wrote |-> TRUE, rows |-> DbMarkAttendance(rws, uq, p)]

\* an accept path that does not look at the seen-set
NeverSeen(id, seen) == FALSE

NotCalled == [called |-> FALSE, ret |-> FALSE, wrote |-> FALSE]

\* take_attendance.py _process_attendance, lines 301-326, for one face whose
\* predict gave `id`: what it does to the seen-set and the store
FullSkipsSeen(id, seen) == id \in seen

FullAccept(id, sess, seen, rws, uq) ==
    IF FullSkipsSeen(id, seen)
    THEN [call |-> NotCalled, rows |-> rws, seen |-> seen]
    ELSE LET m == MarkPresent(rws, uq, <<id, sess>>)
         IN  [call |-> [called |-> TRUE, ret |-> m.ret, wrote |-> m.wrote],
              rows |-> m.rows,
              seen |-> IF m.ret /\ id \in DbStudents THEN seen \cup {id} ELSE seen]

\* take_attendance_simple.py _mark_attendance
SimpleMarkAttendance(id, sess, rws, uq) ==
    IF id \notin DbStudents THEN [call |-> NotCalled, rows |-> rws]
    ELSE IF sess = NoSession THEN [call |-> NotCalled, rows |-> rws]
    ELSE LET m == MarkPresent(rws, uq, <<id, sess>>)
         IN  [call |-> [called |-> TRUE, ret |-> m.ret, wrote |-> m.wrote],
              rows |-> m.rows]

\* take_attendance_simple.py _update_frame, lines 278-294
SimpleSkipsSeen(id, seen) == id \in seen

SimpleAccept(id, sess, seen, rws, uq) ==
    IF SimpleSkipsSeen(id, seen)
    THEN [call |-> NotCalled, rows |-> rws, seen |-> seen]
    ELSE LET m == SimpleMarkAttendance(id, sess, rws, uq)
         IN  [call |-> m.call, rows |-> m.rows, seen |-> seen \cup {id}]

\* take_attendance.py _load_session_attendance
\* (get_session_attendance joins the students table)
LoadSessionAttendance(rws, sess) ==
    {i \in StudentIds : i \in DbStudents /\ rws[<<i, sess>>] > 0}

\* the regions (w, h) the cascade reports for the frames of a session
Rects == {<<100, 100>>, <<300, 100>>, <<401, 380>>}
NoRect == <<0, 0>>
NoRaw == [raises |-> TRUE, label |-> 0, dist |-> 0]

\* FaceDetector.detect_faces: the regions of detectMultiScale, as a list
DetectFaces(is_loaded, cascadeOut) == IF ~is_loaded THEN {} ELSE cascadeOut

MIN_SIDE == 80          \* take_attendance_simple.py: w < 80 or h < 80
MAX_SIDE == 400         \* take_attendance_simple.py: w > 400 or h > 400
\* take_attendance_simple.py _update_frame, VALIDATION 1 to 3, for w / h
\* between 0.7 and 1.3
SimpleValid(rect) ==
    LET w == rect[1]
        h == rect[2]
    IN  /\ ~(10 * w < 7 * h \/ 10 * w > 13 * h)
        /\ ~(w < MIN_SIDE \/ h < MIN_SIDE)
        /\ ~(w > MAX_SIDE \/ h > MAX_SIDE)

\* take_attendance_simple.py _update_frame for one region of the frame
SimpleFrame(rec, rect, raw, sess, seen, rws, uq) ==
    IF ~SimpleValid(rect)
    THEN [op |-> "skip", id |-> NoneId, dist |-> 0,
          call |-> NotCalled, rows |-> rws, seen |-> seen]
    ELSE LET pr == Predict(rec, raw)
         IN  IF \/ pr.dist < EXCELLENT_BAND /\ pr.id # NoneId
                \/ pr.dist < GOOD_BAND /\ pr.id # NoneId
             THEN LET a == SimpleAccept(pr.id, sess, seen, rws, uq)
                  IN  [op |-> "accept", id |-> pr.id, dist |-> pr.dist,
                       call |-> a.call, rows |-> a.rows, seen |-> a.seen]
             ELSE [op |-> "reject", id |-> pr.id, dist |-> pr.dist,
                   call |-> NotCalled, rows |-> rws, seen |-> seen]

\* take_attendance.py _process_attendance for one region of the frame
FullFrame(rec, rect, raw, sess, seen, rws, uq) ==
    LET pr == Predict(rec, raw)
    IN  IF pr.id # NoneId
        THEN LET a == FullAccept(pr.id, sess, seen, rws, uq)
             IN  [op |-> "accept", id |-> pr.id, dist |-> pr.dist,
                  call |-> a.call, rows |-> a.rows, seen |-> a.seen]
        ELSE [op |-> "reject", id |-> pr.id, dist |-> pr.dist,
              call |-> NotCalled, rows |-> rws, seen |-> seen]

\* the recognizer of an attendance window: a model trained on both students
\* (by a run before the first of the behaviour)
SessionRecognizer == Train(NewRecognizer, 2, <<0, 1>>, <<101, 102>>, FALSE, TRUE, 0).rec

\* what one run of a frame callback meets: the read fails, the processing
\* raises, the frame has no face, or it has a region with cv2's prediction
Frames(clf) ==
    {[out |-> o, rect |-> NoRect, raw |-> NoRaw] : o \in {"read_failed", "raise", "no_face"}}
    \cup {[out |-> "face", rect |-> r, raw |-> w] :
              r \in DetectFaces(TRUE, Rects), w \in ClfOutputs(clf, FrameDistances)}

\* polling = a run of the window's frame callback is scheduled
NoWindow == [kind |-> "none", session |-> NoSession, seen |-> {}, running |-> FALSE,
             polling |-> FALSE]
Event(op, id, sess, call) ==
    [op |-> op, id |-> id, session |-> sess, called |-> call.called,
     ret |-> call.ret, wrote |-> call.wrote,
     dist |-> 0, rect |-> NoRect, raw |-> NoRaw]
\* the event of one region of a frame: f = what the window did with it
FrameEvent(f, sess, rect, raw) ==
    [Event(f.op, f.id, sess, f.call) EXCEPT !.dist = f.dist, !.rect = rect, !.raw = raw]
Bump(f, k, cap) == [f EXCEPT ![k] = IF @ < cap THEN @ + 1 ELSE @]

\* student_registration.py: no _capture_images running.  mode = what the
\* camera does for every read; n = len(captured_images); stopReq = a Stop
\* or Cancel click waits in the event queue; tick = parity of the reads
NoCapture == [mode |-> "ok", n |-> 0, looping |-> FALSE, stopReq |-> FALSE, tick |-> 0]

\* the callers of mark_present: two windows, or two processes
Callers == {1, 2}
NoCalls == [c \in Callers |-> [pc |-> "idle", id |-> NoneId, session |-> NoSession,
                               ret |-> FALSE]]

(***************************************************************************)
(* FaceDetector.extract_face.  An image is its shape (width, height); a    *)
(* sub-image is the column and row intervals numpy's slicing selects.      *)
(***************************************************************************)
MaxDim == 4             \* width and height of the images
ImageDims == (MaxDim - 1) .. MaxDim
RectOrigins == -3 .. (MaxDim + 1)
RectSides == 1 .. 2
Margins == 0 .. 1

Max(a, b) == IF a >= b THEN a ELSE b
Min(a, b) == IF a <= b THEN a ELSE b

\* a[start:stop] on an axis of length n: a negative index counts from the
\* end, both are clamped to the axis, an inverted interval is empty
SliceIndex(i, n) == IF i < 0 THEN Max(0, i + n) ELSE Min(i, n)
Slice(start, stop, n) ==
    LET lo == SliceIndex(start, n)
        hi == SliceIndex(stop, n)
    IN  [lo |-> lo, hi |-> Max(lo, hi)]

NoSubImage == [none |-> TRUE, x0 |-> 0, x1 |-> 0, y0 |-> 0, y1 |-> 0]
\* extract_face(image, (x, y, w, h), margin)
ExtractFace(img, rect, margin) ==
    LET x == rect[1]
        y == rect[2]
        w == rect[3]
        h == rect[4]
        x_start == Max(0, x - margin)
        y_start == Max(0, y - margin)
        x_end == Min(img[1], x + w + margin)
        y_end == Min(img[2], y + h + margin)
        cs == Slice(x_start, x_end, img[1])
        rs == Slice(y_start, y_end, img[2])
    IN  IF (cs.hi - cs.lo) * (rs.hi - rs.lo) > 0
        THEN [none |-> FALSE, x0 |-> cs.lo, x1 |-> cs.hi, y0 |-> rs.lo, y1 |-> rs.hi]
        ELSE NoSubImage

NoExtract == [called |-> FALSE, img |-> <<0, 0>>, rect |-> <<0, 0, 0, 0>>,
              margin |-> 0, res |-> NoSubImage]

Idle == [r |-> 0, path |-> TRAINED_MODEL_PATH]
Op(op, r, ok, path, res) ==
    [op |-> op, r |-> r, ok |-> ok, path |-> path, res |-> res]

NoFiles == [p \in AllPaths |-> Absent]

RecInit ==
    /\ recs = [r \in RecIds |-> NewRecognizer]
    /\ files = NoFiles
    /\ savePc = Idle
    /\ last = Op("init", 0, TRUE, TRAINED_MODEL_PATH, NoResult)
    /\ runs = 0
    /\ modelPath \in ModelPaths
    /\ store = <<>>
    /\ trainRes = TrainResult("none", FALSE, FALSE, FALSE, NoData)
    /\ rows = [p \in Pairs |-> 0]
    /\ writes = [p \in Pairs |-> 0]
    /\ calledFor = {}
    /\ uniq = TRUE
    /\ nSessions = 0
    /\ win = NoWindow
    /\ accepts = [i \in StudentIds |-> 0]
    /\ ev = Event("init", NoneId, NoSession, NotCalled)
    /\ cams = {}
    /\ reg = "closed"
    /\ appTrain = "idle"
    /\ capture = NoCapture
    /\ mp = NoCalls
    /\ xf = NoExtract

TrainAct(r) ==
    /\ UNCHANGED nonRecVars
    /\ savePc = Idle
    /\ runs < MaxRuns
    /\ \E c \in TrainCalls :
          LET t == Train(recs[r], c.nFaces, c.labels, c.sids, FALSE, c.cvOk, runs + 1)
          IN  /\ recs' = [recs EXCEPT ![r] = t.rec]
              /\ runs' = IF t.ok THEN runs + 1 ELSE runs
              /\ last' = Op("train", r, t.ok, TRAINED_MODEL_PATH, TrainReturn(t.cause))
    /\ UNCHANGED <<files, savePc, modelPath>>

PredictAct(r) ==
    /\ UNCHANGED nonRecVars
    /\ savePc = Idle
    /\ \E raw \in ClfOutputs(recs[r].clf, ThresholdEdge) :
          last' = Op("predict", r, TRUE, TRAINED_MODEL_PATH, Predict(recs[r], raw))
    /\ UNCHANGED <<recs, files, savePc, runs, modelPath>>

UpdateAct(r) ==
    /\ UNCHANGED nonRecVars
    /\ savePc = Idle
    /\ \E c \in UpdateCalls :
          LET u == UpdateModel(recs[r], c.labels, c.cvOk)
          IN  /\ recs' = [recs EXCEPT ![r] = u.rec]
              /\ last' = Op("update", r, u.ok, TRAINED_MODEL_PATH, NoResult)
    /\ UNCHANGED <<files, savePc, runs, modelPath>>

\* save_model up to and including self.recognizer.save(model_path);
\* ioOk = mkdir and the blob write do not raise
SaveBegin(r) ==
    /\ UNCHANGED nonRecVars
    /\ savePc = Idle
    /\ \E path \in {modelPath}, ioOk \in BOOLEAN :
          IF ~recs[r].is_trained \/ ~ioOk
          THEN /\ last' = Op("save", r, FALSE, path, NoResult)
               /\ UNCHANGED <<files, savePc>>
          ELSE /\ files' = SaveBlob(recs[r], path, files)
               /\ savePc' = [r |-> r, path |-> path]
               /\ last' = Op("saving", r, TRUE, path, NoResult)
    /\ UNCHANGED <<recs, runs, modelPath>>

\* the rest of save_model: the label-map write and the return
SaveFinish ==
    /\ UNCHANGED nonRecVars
    /\ savePc # Idle
    /\ \E ioOk \in BOOLEAN :
          LET w == SaveLabels(recs[savePc.r], savePc.path, files, ioOk)
          IN  /\ files' = w.files
              /\ last' = Op("save", savePc.r, w.ok, savePc.path, NoResult)
    /\ savePc' = Idle
    /\ UNCHANGED <<recs, runs, modelPath>>

LoadAct(r) ==
    /\ UNCHANGED nonRecVars
    /\ savePc = Idle
    /\ \E path \in {modelPath}, junkRaises \in BOOLEAN :
          LET l == LoadModel(recs[r], path, files, junkRaises)
          IN  /\ recs' = [recs EXCEPT ![r] = l.rec]
              /\ last' = Op("load", r, l.ok, path, NoResult)
    /\ UNCHANGED <<files, savePc, runs, modelPath>>

\* the process dies (also between the two writes of save_model) and is
\* started again: the objects are constructed anew, the files stay
Crash ==
    /\ UNCHANGED nonRecVars
    /\ recs' = [r \in RecIds |-> NewRecognizer]
    /\ savePc' = Idle
    /\ last' = Op("crash", 0, TRUE, TRAINED_MODEL_PATH, NoResult)
    /\ UNCHANGED <<files, runs, modelPath>>

\* object 1 goes through all the operations of FaceRecognizer; object 2 is
\* the second object of the save/load tests: it only loads
RecNext ==
    \/ TrainAct(1)
    \/ PredictAct(1)
    \/ UpdateAct(1)
    \/ SaveBegin(1)
    \/ SaveFinish
    \/ LoadAct(1)
    \/ LoadAct(2)
    \/ Crash

SpecRec == RecInit /\ [][RecNext]_vars


(***************************************************************************)
(* The training entry points as actions.  The script's recognizer is a new *)
(* object (recs[2]); the service trains its own recognizer (recs[1]) and   *)
(* saves to Settings.TRAINED_MODEL_PATH.                                   *)
(***************************************************************************)
\* a model persisted by an earlier training
OldClf == [kind |-> "lbph", run |-> 0, labels |-> {0, 1}]
OldFiles ==
    [p \in AllPaths |->
        IF p \in {TRAINED_MODEL_PATH, SCRIPT_MODEL_PATH} THEN Blob(OldClf)
        ELSE IF p = LabelMapPath(TRAINED_MODEL_PATH)
        THEN JsonDoc(JsonDump([l \in {0, 1} |-> 101 + l]), 0)
        ELSE Absent]

TrainInit ==
    /\ recs = [r \in RecIds |-> NewRecognizer]
    /\ files \in {NoFiles, OldFiles}
    /\ savePc = Idle
    /\ last = Op("init", 0, TRUE, TRAINED_MODEL_PATH, NoResult)
    /\ runs = 0
    /\ modelPath = TRAINED_MODEL_PATH
    /\ store \in Stores
    /\ trainRes = TrainResult("none", FALSE, FALSE, FALSE, NoData)
    /\ rows = [p \in Pairs |-> 0]
    /\ writes = [p \in Pairs |-> 0]
    /\ calledFor = {}
    /\ uniq = TRUE
    /\ nSessions = 0
    /\ win = NoWindow
    /\ accepts = [i \in StudentIds |-> 0]
    /\ ev = Event("init", NoneId, NoSession, NotCalled)
    /\ cams = {}
    /\ reg = "closed"
    /\ appTrain = "idle"
    /\ capture = NoCapture
    /\ mp = NoCalls
    /\ xf = NoExtract

\* train_model.py main
ScriptMain ==
    /\ runs < MaxRuns
    /\ LET d == ScriptLoad(store)
       IN  IF d.none \/ Cardinality(SetOf(d.labels)) < 2
           THEN /\ trainRes' = TrainResult("script", FALSE, FALSE, FALSE, d)
                /\ UNCHANGED <<recs, files, runs>>
           ELSE LET t == ScriptTrainModel(d, files, runs + 1)
                IN  /\ recs' = [recs EXCEPT ![2] = t.rec]
                    /\ files' = t.files
                    /\ runs' = runs + 1
                    /\ trainRes' = TrainResult("script", t.ok, TRUE, TRUE, d)
    /\ UNCHANGED <<savePc, last, modelPath, store>>
    /\ UNCHANGED <<sessVars, uiVars, restVars>>

\* TrainingService().train_model()
ServiceTrainModel ==
    /\ runs < MaxRuns
    /\ LET d == ServiceLoad(store)
       IN  IF d.nFaces = 0
           THEN /\ trainRes' = TrainResult("service", FALSE, FALSE, FALSE, d)
                /\ UNCHANGED <<recs, files, runs>>
           ELSE LET t == Train(NewRecognizer, d.nFaces, d.labels, d.sids,
                               FALSE, TRUE, runs + 1)
                    s == SaveModel(t.rec, TRAINED_MODEL_PATH, files)
                IN  /\ recs' = [recs EXCEPT ![1] = t.rec]
                    /\ files' = IF t.ok THEN s.files ELSE files
                    /\ runs' = IF t.ok THEN runs + 1 ELSE runs
                    /\ trainRes' = TrainResult("service", t.ok /\ s.ok, TRUE, t.ok, d)
    /\ UNCHANGED <<savePc, last, modelPath, store>>
    /\ UNCHANGED <<sessVars, uiVars, restVars>>

TrainNext == ScriptMain \/ ServiceTrainModel

SpecTrain == TrainInit /\ [][TrainNext]_vars


(***************************************************************************)
(* The attendance windows and direct mark_present calls as actions.        *)
(* writes, calledFor and accepts are history: the INSERTs executed per     *)
(* (student, session), the pairs mark_present was called for, and the      *)
(* accepts of an identity since the window's session was set.              *)
(***************************************************************************)
MaxAccepts == 2         \* accepts of one identity that are told apart
MaxAppRuns == 1         \* training runs started from the main window

\* the image store while the windows are used: both students registered
SessionStore ==
    [i \in 1 .. 2 |-> [sid |-> 100 + i, known |-> TRUE,
                       nImg |-> IMAGES_PER_STUDENT, nOk |-> IMAGES_PER_STUDENT]]

\* an app.py training thread that trains the recognizer of the session
SessionAsTrainer(sessionRec) == sessionRec

\* app.py _train_model: trainer = TrainingService(), which makes its own
\* FaceRecognizer beside the one the session (sessionRec) predicts with
TrainerOf(sessionRec) == CHOOSE r \in RecIds : r # sessionRec

\* take_attendance_simple.py _load_model on the files fs: the window goes
\* away when face_recognition_model.yml is missing or label_mapping.json
\* cannot be opened; the result of load_model is not looked at
SimpleLoadModel(fs, junkRaises) ==
    LET l == LoadModel(NewRecognizer, SCRIPT_MODEL_PATH, fs, junkRaises)
    IN  IF fs[SCRIPT_MODEL_PATH].kind = "absent"
        THEN [ok |-> FALSE, rec |-> NewRecognizer, mapping |-> EmptyMap]
        ELSE IF fs[LABEL_MAPPING_PATH].kind # "json"
        THEN [ok |-> FALSE, rec |-> l.rec, mapping |-> EmptyMap]
        ELSE [ok |-> TRUE, rec |-> l.rec, mapping |-> fs[LABEL_MAPPING_PATH].doc]

SessInit ==
    /\ recs = [r \in RecIds |-> IF r = 1 THEN SessionRecognizer ELSE NewRecognizer]
    /\ files = NoFiles
    /\ savePc = Idle
    /\ last = Op("init", 0, TRUE, TRAINED_MODEL_PATH, NoResult)
    /\ runs = 0
    /\ modelPath = TRAINED_MODEL_PATH
    /\ store = SessionStore
    /\ trainRes = TrainResult("none", FALSE, FALSE, FALSE, NoData)
    /\ rows = [p \in Pairs |-> 0]
    /\ writes = [p \in Pairs |-> 0]
    /\ calledFor = {}
    /\ uniq \in BOOLEAN
    /\ nSessions = 0
    /\ win = NoWindow
    /\ accepts = [i \in StudentIds |-> 0]
    /\ ev = Event("init", NoneId, NoSession, NotCalled)
    /\ cams = {}
    /\ reg = "closed"
    /\ appTrain = "idle"
    /\ capture = NoCapture
    /\ mp = NoCalls
    /\ xf = NoExtract

\* the store and the history after a call `c` of the accept path or of
\* mark_present for pair p
Stored(p, c, newRows) ==
    /\ rows' = newRows
    /\ writes' = IF c.wrote THEN [writes EXCEPT ![p] = @ + 1] ELSE writes
    /\ calledFor' = IF c.called THEN calledFor \cup {p} ELSE calledFor

\* AttendanceService.create_session from any screen
CreateSessionRow ==
    /\ nSessions < MaxSessions
    /\ nSessions' = nSessions + 1
    /\ ev' = Event("create_session", NoneId, nSessions + 1, NotCalled)
    /\ UNCHANGED <<rows, writes, calledFor, restVars, win, accepts>>
    /\ UNCHANGED <<recVars, trainVars, uiVars>>

\* AttendanceLogger.mark_present called directly (AttendanceService.mark_attendance)
MarkPresentCall ==
    /\ \E id \in StudentIds, s \in 1 .. nSessions :
          LET p == <<id, s>>
              m == MarkPresent(rows, uniq, p)
              c == [called |-> TRUE, ret |-> m.ret, wrote |-> m.wrote]
          IN  /\ writes[p] < MaxWrites
              /\ Stored(p, c, m.rows)
              /\ ev' = Event("mark_present", id, s, c)
    /\ UNCHANGED <<restVars, nSessions, win, accepts>>
    /\ UNCHANGED <<recVars, trainVars, uiVars>>

\* the body of a frame callback of window w (running, with its camera) on
\* frame fr: the regions go through FullFrame or SimpleFrame; raiseOp names
\* the event of an exception.  take_attendance.py lets the exception out
\* and schedules nothing; take_attendance_simple.py catches it, and returns
\* before scheduling when the read failed.
ProcessFrame(w, fr, raiseOp) ==
    LET s == w.session
        quiet == [op |-> IF fr.out = "raise" THEN raiseOp ELSE fr.out,
                  id |-> NoneId, dist |-> 0, call |-> NotCalled,
                  rows |-> rows, seen |-> w.seen]
        f == IF fr.out # "face" THEN quiet
             ELSE IF w.kind = "full"
             THEN FullFrame(recs[1], fr.rect, fr.raw, s, w.seen, rows, uniq)
             ELSE SimpleFrame(recs[1], fr.rect, fr.raw, s, w.seen, rows, uniq)
        p == <<IF f.id = NoneId THEN 101 ELSE f.id, IF s = NoSession THEN 1 ELSE s>>
    IN  /\ f.op = "skip" => fr.raw = NoRaw
        /\ f.call.called => writes[p] < MaxWrites
        /\ Stored(p, f.call, f.rows)
        /\ win' = [w EXCEPT !.seen = f.seen,
                            !.polling = IF w.kind = "full" THEN fr.out # "raise"
                                        ELSE fr.out # "read_failed"]
        /\ accepts' = IF f.op = "accept" THEN Bump(accepts, f.id, MaxAccepts)
                      ELSE accepts
        /\ ev' = FrameEvent(f, s, fr.rect, fr.raw)

\* take_attendance.py: the window is opened
OpenFull ==
    /\ win.kind = "none"
    /\ win' = [NoWindow EXCEPT !.kind = "full"]
    /\ accepts' = [i \in StudentIds |-> 0]
    /\ ev' = Event("open", NoneId, NoSession, NotCalled)
    /\ UNCHANGED <<rows, writes, calledFor, restVars, nSessions>>
    /\ UNCHANGED <<recVars, trainVars, uiVars>>

\* take_attendance.py _on_session_selected
OnSessionSelected ==
    /\ win.kind = "full" /\ ~win.running
    /\ \E s \in 1 .. nSessions :
          /\ win' = [win EXCEPT !.session = s, !.seen = LoadSessionAttendance(rows, s)]
          /\ ev' = Event("select", NoneId, s, NotCalled)
    /\ accepts' = [i \in StudentIds |-> 0]
    /\ UNCHANGED <<rows, writes, calledFor, restVars, nSessions>>
    /\ UNCHANGED <<recVars, trainVars, uiVars>>

\* take_attendance.py _start_attendance: Camera().open(), then the first
\* _process_attendance inside the try; opened = what the driver answers
StartAttendance ==
    /\ win.kind = "full" /\ ~win.running /\ win.session # NoSession
    /\ recs[1].is_trained
    /\ \E opened \in BOOLEAN :
          IF opened
          THEN /\ cams' = cams \cup {"win"}
               /\ \E fr \in Frames(recs[1].clf) :
                     ProcessFrame([win EXCEPT !.running = TRUE], fr, "start_failed")
          ELSE /\ ev' = Event("start_failed", NoneId, win.session, NotCalled)
               /\ UNCHANGED <<cams, win, rows, writes, calledFor, accepts>>
    /\ UNCHANGED <<restVars, nSessions, reg, appTrain>>
    /\ UNCHANGED <<recVars, trainVars>>

\* take_attendance.py _stop_attendance
StopAttendance ==
    /\ win.kind = "full" /\ win.running
    /\ win' = [win EXCEPT !.running = FALSE, !.polling = FALSE]
    /\ cams' = cams \ {"win"}
    /\ ev' = Event("stop", NoneId, win.session, NotCalled)
    /\ UNCHANGED <<rows, writes, calledFor, restVars, nSessions, accepts, reg, appTrain>>
    /\ UNCHANGED <<recVars, trainVars>>

\* take_attendance.py _process_attendance, run from the event loop
ProcessAttendance ==
    /\ win.kind = "full" /\ win.running /\ win.polling
    /\ \E fr \in Frames(recs[1].clf) : ProcessFrame(win, fr, "raise")
    /\ UNCHANGED <<restVars, nSessions>>
    /\ UNCHANGED <<recVars, trainVars, uiVars>>

\* take_attendance_simple.py __init__: _load_model, _setup_ui, then
\* _start_camera with cv2.VideoCapture(0) and the first _update_frame
OpenSimple ==
    /\ win.kind = "none"
    /\ \E loaded \in BOOLEAN, opened \in BOOLEAN :
          IF loaded /\ opened
          THEN /\ cams' = cams \cup {"win"}
               /\ \E fr \in Frames(recs[1].clf) :
                     ProcessFrame([NoWindow EXCEPT !.kind = "simple", !.running = TRUE],
                                  fr, "raise")
          ELSE /\ loaded => ~opened
               /\ ev' = Event("open_failed", NoneId, NoSession, NotCalled)
               /\ UNCHANGED <<cams, win, rows, writes, calledFor, accepts>>
    /\ UNCHANGED <<restVars, nSessions, reg, appTrain>>
    /\ UNCHANGED <<recVars, trainVars>>

\* take_attendance_simple.py _create_session
CreateSession ==
    /\ win.kind = "simple"
    /\ nSessions < MaxSessions
    /\ nSessions' = nSessions + 1
    /\ win' = [win EXCEPT !.session = nSessions + 1]
    /\ accepts' = [i \in StudentIds |-> 0]
    /\ ev' = Event("create_session", NoneId, nSessions + 1, NotCalled)
    /\ UNCHANGED <<rows, writes, calledFor, restVars>>
    /\ UNCHANGED <<recVars, trainVars, uiVars>>

\* take_attendance_simple.py _update_frame, run from the event loop
UpdateFrame ==
    /\ win.kind = "simple" /\ win.running /\ win.polling
    /\ \E fr \in Frames(recs[1].clf) : ProcessFrame(win, fr, "raise")
    /\ UNCHANGED <<restVars, nSessions>>
    /\ UNCHANGED <<recVars, trainVars, uiVars>>

\* student_registration.py: the window is opened
OpenRegistration ==
    /\ reg = "closed"
    /\ reg' = "idle"
    /\ ev' = Event("reg_open", NoneId, NoSession, NotCalled)
    /\ UNCHANGED <<rows, writes, calledFor, restVars, nSessions, win, accepts, cams, appTrain>>
    /\ UNCHANGED <<recVars, trainVars>>

\* student_registration.py _start_camera: Camera().open(), then the first
\* _update_camera_feed inside the try (raised = it lets an exception out)
RegStartCamera ==
    /\ reg = "idle"
    /\ \E opened \in BOOLEAN, raised \in BOOLEAN :
          IF opened
          THEN /\ cams' = cams \cup {"reg"}
               /\ reg' = "capturing"
               /\ ev' = Event(IF raised THEN "reg_start_failed" ELSE "reg_start",
                              NoneId, NoSession, NotCalled)
          ELSE /\ ~raised
               /\ ev' = Event("reg_start_failed", NoneId, NoSession, NotCalled)
               /\ UNCHANGED <<cams, reg>>
    /\ UNCHANGED <<rows, writes, calledFor, restVars, nSessions, win, accepts, appTrain>>
    /\ UNCHANGED <<recVars, trainVars>>

\* student_registration.py _stop_camera, and _cancel / destroy, which call
\* it before the window goes
RegStopCamera ==
    /\ reg # "closed"
    /\ \E closes \in BOOLEAN :
          /\ reg = "idle" => closes
          /\ reg' = IF closes THEN "closed" ELSE "idle"
          /\ ev' = Event(IF closes THEN "reg_close" ELSE "reg_stop",
                         NoneId, NoSession, NotCalled)
    /\ cams' = cams \ {"reg"}
    /\ UNCHANGED <<rows, writes, calledFor, restVars, nSessions, win, accepts, appTrain>>
    /\ UNCHANGED <<recVars, trainVars>>

\* app.py _train_model, in the training thread: TrainingService() and
\* train_model up to FaceRecognizer.train
AppTrainBegin ==
    /\ appTrain = "idle"
    /\ runs < MaxAppRuns
    /\ LET d == ServiceLoad(store)
           t == Train(NewRecognizer, d.nFaces, d.labels, d.sids, FALSE, TRUE, runs + 1)
       IN  /\ recs' = [recs EXCEPT ![TrainerOf(1)] = t.rec]
           /\ trainRes' = TrainResult("service", FALSE, t.ok, FALSE, d)
           /\ appTrain' = IF d.nFaces > 0 /\ t.ok THEN "trained" ELSE "idle"
    /\ ev' = Event("app_train", NoneId, NoSession, NotCalled)
    /\ UNCHANGED <<files, savePc, last, runs, modelPath, store>>
    /\ UNCHANGED <<rows, writes, calledFor, restVars, nSessions, win, accepts, cams, reg>>

\* the rest of train_model: save_model, and the result
AppTrainFinish ==
    /\ appTrain = "trained"
    /\ LET s == SaveModel(recs[TrainerOf(1)], TRAINED_MODEL_PATH, files)
       IN  /\ files' = s.files
           /\ trainRes' = [trainRes EXCEPT !.ok = s.ok, !.saved = TRUE]
    /\ runs' = runs + 1
    /\ appTrain' = "idle"
    /\ ev' = Event("app_train_saved", NoneId, NoSession, NotCalled)
    /\ UNCHANGED <<recs, savePc, last, modelPath, store>>
    /\ UNCHANGED <<rows, writes, calledFor, restVars, nSessions, win, accepts, cams, reg>>

\* take_attendance.py destroy (through _stop_attendance) and
\* take_attendance_simple.py _close: the camera is released, the seen-set
\* is gone with the window
CloseWindow ==
    /\ win.kind # "none"
    /\ win' = NoWindow
    /\ cams' = cams \ {"win"}
    /\ accepts' = [i \in StudentIds |-> 0]
    /\ ev' = Event("close", NoneId, NoSession, NotCalled)
    /\ UNCHANGED <<rows, writes, calledFor, restVars, nSessions, reg, appTrain>>
    /\ UNCHANGED <<recVars, trainVars>>

SessNext ==
    \/ CreateSessionRow
    \/ MarkPresentCall
    \/ OpenFull
    \/ OnSessionSelected
    \/ StartAttendance
    \/ StopAttendance
    \/ ProcessAttendance
    \/ OpenSimple
    \/ CreateSession
    \/ UpdateFrame
    \/ CloseWindow

\* the windows with the registration window and the training thread of the
\* main window beside them
UiInit ==
    /\ SessInit
    /\ uniq = TRUE

UiNext ==
    \/ OpenFull
    \/ OnSessionSelected
    \/ StartAttendance
    \/ StopAttendance
    \/ ProcessAttendance
    \/ OpenSimple
    \/ CreateSession
    \/ UpdateFrame
    \/ CloseWindow
    \/ CreateSessionRow
    \/ OpenRegistration
    \/ RegStartCamera
    \/ RegStopCamera
    \/ AppTrainBegin
    \/ AppTrainFinish

SpecUi == UiInit /\ [][UiNext]_vars

SpecSess == SessInit /\ [][SessNext]_vars


(***************************************************************************)
(* mark_present called by two callers at once: each call is a read         *)
(* (check_attendance_marked) and then, when it found nothing, an insert    *)
(* (mark_attendance), each in its own transaction.                         *)
(***************************************************************************)
RaceInit ==
    /\ recs = [r \in RecIds |-> NewRecognizer]
    /\ files = NoFiles
    /\ savePc = Idle
    /\ last = Op("init", 0, TRUE, TRAINED_MODEL_PATH, NoResult)
    /\ runs = 0
    /\ modelPath = TRAINED_MODEL_PATH
    /\ store = <<>>
    /\ trainRes = TrainResult("none", FALSE, FALSE, FALSE, NoData)
    /\ rows = [p \in Pairs |-> 0]
    /\ writes = [p \in Pairs |-> 0]
    /\ calledFor = {}
    /\ uniq \in BOOLEAN
    /\ nSessions = MaxSessions
    /\ win = NoWindow
    /\ accepts = [i \in StudentIds |-> 0]
    /\ ev = Event("init", NoneId, NoSession, NotCalled)
    /\ cams = {}
    /\ reg = "closed"
    /\ appTrain = "idle"
    /\ capture = NoCapture
    /\ mp = NoCalls
    /\ xf = NoExtract

\* mark_present, lines 41-45: caller c starts a call and reads the store
MpCheck(c) ==
    /\ mp[c].pc # "checked"
    /\ \E id \in StudentIds, s \in 1 .. nSessions :
          /\ writes[<<id, s>>] < MaxWrites
          /\ mp' = [mp EXCEPT ![c] =
                       [pc |-> IF CheckAttendanceMarked(rows, <<id, s>>)
                               THEN "done" ELSE "checked",
                        id |-> id, session |-> s, ret |-> FALSE]]
          /\ calledFor' = calledFor \cup {<<id, s>>}
    /\ UNCHANGED <<recVars, trainVars, uiVars, uniq, capture, xf>>
    /\ UNCHANGED <<rows, writes, nSessions, win, accepts, ev>>

\* mark_present, lines 47-59: the insert of a call that read "not marked"
MpInsert(c) ==
    /\ mp[c].pc = "checked"
    /\ LET p == <<mp[c].id, mp[c].session>>
       IN  /\ rows' = DbMarkAttendance(rows, uniq, p)
           /\ writes' = [writes EXCEPT ![p] = @ + 1]
    /\ mp' = [mp EXCEPT ![c].pc = "done", ![c].ret = TRUE]
    /\ UNCHANGED <<recVars, trainVars, uiVars, uniq, capture, xf>>
    /\ UNCHANGED <<calledFor, nSessions, win, accepts, ev>>

RaceNext == \E c \in Callers : MpCheck(c) \/ MpInsert(c)

SpecRace == RaceInit /\ [][RaceNext]_vars


(***************************************************************************)
(* extract_face called on images and regions of every position.            *)
(***************************************************************************)
ExtractInit ==
    /\ recs = [r \in RecIds |-> NewRecognizer]
    /\ files = NoFiles
    /\ savePc = Idle
    /\ last = Op("init", 0, TRUE, TRAINED_MODEL_PATH, NoResult)
    /\ runs = 0
    /\ modelPath = TRAINED_MODEL_PATH
    /\ store = <<>>
    /\ trainRes = TrainResult("none", FALSE, FALSE, FALSE, NoData)
    /\ rows = [p \in Pairs |-> 0]
    /\ writes = [p \in Pairs |-> 0]
    /\ calledFor = {}
    /\ uniq = TRUE
    /\ nSessions = 0
    /\ win = NoWindow
    /\ accepts = [i \in StudentIds |-> 0]
    /\ ev = Event("init", NoneId, NoSession, NotCalled)
    /\ cams = {}
    /\ reg = "closed"
    /\ appTrain = "idle"
    /\ capture = NoCapture
    /\ mp = NoCalls
    /\ xf = NoExtract

\* one call of extract_face
ExtractFaceCall ==
    /\ ~xf.called
    /\ \E W \in ImageDims, H \in ImageDims, x \in RectOrigins, y \in RectOrigins,
          w \in RectSides, h \in RectSides, margin \in Margins :
          xf' = [called |-> TRUE, img |-> <<W, H>>, rect |-> <<x, y, w, h>>,
                 margin |-> margin,
                 res |-> ExtractFace(<<W, H>>, <<x, y, w, h>>, margin)]
    /\ UNCHANGED <<recVars, trainVars, sessVars, uiVars, uniq, capture, mp>>

ExtractNext == ExtractFaceCall

SpecExtract == ExtractInit /\ [][ExtractNext]_vars


(***************************************************************************)
(* The registration window while its camera is open: the camera feed       *)
(* callback, the loop of _capture_images, and the user's Stop or Cancel.   *)
(* A click is queued; its handler runs when the event loop runs, which is  *)
(* between handlers and inside self.update().                              *)
(***************************************************************************)
CaptureInit ==
    /\ recs = [r \in RecIds |-> NewRecognizer]
    /\ files = NoFiles
    /\ savePc = Idle
    /\ last = Op("init", 0, TRUE, TRAINED_MODEL_PATH, NoResult)
    /\ runs = 0
    /\ modelPath = TRAINED_MODEL_PATH
    /\ store = <<>>
    /\ trainRes = TrainResult("none", FALSE, FALSE, FALSE, NoData)
    /\ rows = [p \in Pairs |-> 0]
    /\ writes = [p \in Pairs |-> 0]
    /\ calledFor = {}
    /\ uniq = TRUE
    /\ nSessions = 0
    /\ win = NoWindow
    /\ accepts = [i \in StudentIds |-> 0]
    /\ ev = Event("init", NoneId, NoSession, NotCalled)
    /\ cams = {}
    /\ reg = "idle"
    /\ appTrain = "idle"
    /\ \E m \in {"ok", "failing", "no_face"} : capture = [NoCapture EXCEPT !.mode = m]
    /\ mp = NoCalls
    /\ xf = NoExtract

\* _capture_images up to its while loop (the Capture button is enabled
\* while the camera is started; a click queued before it is handled first)
CaptureImages ==
    /\ reg = "capturing" /\ ~capture.looping /\ ~capture.stopReq
    /\ capture' = [capture EXCEPT !.looping = TRUE, !.n = 0]
    /\ UNCHANGED <<recVars, trainVars, sessVars, uiVars, uniq, mp, xf>>

\* one test of the while condition of _capture_images and, when it holds,
\* one body: camera.read(), and with a face an image is kept and
\* self.update() runs the queued handlers (here _stop_camera); without a
\* frame or a face the body ends without reaching self.update()
CaptureIteration ==
    /\ capture.looping
    /\ IF capture.n < IMAGES_PER_STUDENT /\ reg = "capturing"
       THEN IF capture.mode = "ok"
            THEN /\ capture' = [capture EXCEPT !.n = @ + 1, !.tick = 1 - @,
                                               !.stopReq = FALSE]
                 /\ reg' = IF capture.stopReq THEN "idle" ELSE reg
                 /\ cams' = IF capture.stopReq THEN cams \ {"reg"} ELSE cams
            ELSE /\ capture' = [capture EXCEPT !.tick = 1 - @]
                 /\ UNCHANGED <<cams, reg>>
       ELSE /\ capture' = [capture EXCEPT !.looping = FALSE]
            /\ UNCHANGED <<cams, reg>>
    /\ UNCHANGED <<recVars, trainVars, sessVars, appTrain, uniq, mp, xf>>

\* the user clicks Stop Camera or Cancel
UserStop ==
    /\ reg = "capturing" /\ ~capture.stopReq
    /\ capture' = [capture EXCEPT !.stopReq = TRUE]
    /\ UNCHANGED <<recVars, trainVars, sessVars, uiVars, uniq, mp, xf>>

\* the event loop, no handler running, runs the queued _stop_camera
ProcessStop ==
    /\ ~capture.looping /\ capture.stopReq
    /\ capture' = [capture EXCEPT !.stopReq = FALSE]
    /\ reg' = "idle"
    /\ cams' = cams \ {"reg"}
    /\ UNCHANGED <<recVars, trainVars, sessVars, appTrain, uniq, mp, xf>>

\* _update_camera_feed, run by the event loop: a read, and self.after(30)
\* whatever the read gave
UpdateCameraFeed ==
    /\ reg = "capturing" /\ ~capture.looping
    /\ capture' = [capture EXCEPT !.tick = 1 - @]
    /\ UNCHANGED <<recVars, trainVars, sessVars, uiVars, uniq, mp, xf>>

CaptureNext ==
    \/ RegStartCamera
    \/ CaptureImages
    \/ CaptureIteration
    \/ UserStop
    \/ ProcessStop
    \/ UpdateCameraFeed

\* the interpreter goes on with a loop it is in, and the event loop runs a
\* queued handler when no handler is running
SpecCapture ==
    /\ CaptureInit
    /\ [][CaptureNext]_vars
    /\ WF_vars(CaptureIteration)
    /\ WF_vars(ProcessStop)


(***************************************************************************)
(* Claims about FaceRecognizer and its files (SpecRec).                    *)
(***************************************************************************)

\* C3: whenever no save_model call is between its two writes (also after a
\* crash or a failed write in the middle of one), every model blob on disk
\* has its label map beside it, written by the same training run.
C3_ArtifactsFromSameRun ==
    savePc = Idle =>
        \A p \in ModelPaths :
            files[p].kind = "blob" =>
                /\ files[LabelMapPath(p)].kind = "json"
                /\ files[LabelMapPath(p)].run = files[p].run

\* C6: save_model(path) by a trained recognizer, followed by load_model(path)
\* on a fresh recognizer, succeeds, leaves the fresh object trained with an
\* equal label map, and predict gives the same result on both objects.
C6_SaveLoadRoundTrip ==
    [][(/\ last.op = "save" /\ last.ok /\ last.r = 1
        /\ recs[2] = NewRecognizer
        /\ last'.op = "load" /\ last'.r = 2)
       => /\ last'.ok
          /\ recs'[2].is_trained
          /\ recs'[2].label_map = recs[1].label_map
          /\ \A raw \in ClfOutputs(recs[1].clf, ThresholdEdge) :
                Predict(recs'[2], raw) = Predict(recs[1], raw)
          /\ recs'[2].clf = recs[1].clf]_vars

\* C7: after a successful load_model of a model whose label-map file is
\* missing, the recognizer is trained and predict returns identity N for
\* every match within the threshold that the classifier labels N.
C7_IdentityLabelFallback ==
    (/\ last.op = "load" /\ last.ok
     /\ files[LabelMapPath(last.path)].kind = "absent")
    => /\ recs[last.r].is_trained
       /\ \A raw \in ClfOutputs(recs[last.r].clf, ThresholdEdge) :
             (~raw.raises /\ raw.dist <= RECOGNITION_THRESHOLD)
             => Predict(recs[last.r], raw).id = raw.label

\* C8: after a successful save_model(path), for every path, the label map
\* is at a path that differs from the model path, and both artifacts exist:
\* the model blob at the model path, the label map at the derived path.
C8_LabelMapPathDistinct ==
    (last.op = "save" /\ last.ok)
    => /\ LabelMapPath(last.path) # last.path
       /\ files[last.path].kind = "blob"
       /\ files[LabelMapPath(last.path)].kind = "json"

\* C9: is_trained is false at first, becomes true only by a successful train
\* or load_model of that object, is never reset to false by an operation,
\* and a failed load_model on an untrained object leaves it untrained.
C9_UntrainedToTrained ==
    /\ (last.op = "init" => \A r \in RecIds : ~recs[r].is_trained)
    /\ [][\A r \in RecIds :
            /\ (recs[r].is_trained /\ last'.op # "crash") => recs'[r].is_trained
            /\ (~recs[r].is_trained /\ recs'[r].is_trained)
               => (last'.op \in {"train", "load"} /\ last'.r = r /\ last'.ok)
            /\ (~recs[r].is_trained /\ last'.op = "load" /\ last'.r = r /\ ~last'.ok)
               => ~recs'[r].is_trained]_vars

\* a load_model that failed on a trained recognizer, which is still trained
C9_Witness ==
    /\ last.op = "load" /\ ~last.ok /\ last.r = 1
    /\ recs[1].is_trained
    /\ runs = MaxRuns

\* C10: on an untrained recognizer predict raises (its result is no tuple),
\* save_model and update_model report failure, and the recognizer stays
\* untrained with an empty label map.
C10_UntrainedSignalsNotTrained ==
    \A r \in RecIds :
        (last.r = r /\ ~recs[r].is_trained /\ last.op \in {"predict", "save", "update"})
        => /\ (last.op = "predict" => last.res = PredictRaise)
           /\ (last.op \in {"save", "update"} => ~last.ok)
           /\ recs[r].label_map = EmptyMap

\* C11: train with an empty sample list, an empty label list or lists of
\* different lengths ends by raising, and leaves is_trained and the label
\* map of the recognizer as they were.
C11_InvalidInputRaises ==
    [][(last'.op = "train" /\ last' # last /\ last'.res.cause \in {"empty", "mismatch"})
       => (/\ last'.res.kind = "raise"
           /\ recs'[last'.r].is_trained = recs[last'.r].is_trained
           /\ recs'[last'.r].label_map = recs[last'.r].label_map)]_vars

\* the values Settings.RECOGNITION_THRESHOLD is configured to
Thresholds == {RECOGNITION_THRESHOLD - 1, RECOGNITION_THRESHOLD}

\* C14: for a trained recognizer and a query for which cv2 reports distance
\* d, predict returns identity None exactly when d exceeds the threshold,
\* and always returns d; so with a threshold below d the query is rejected,
\* and a query rejected under one threshold is rejected under every lower
\* threshold.
C14_ThresholdDecides ==
    \A r \in RecIds, t1 \in Thresholds, t2 \in Thresholds :
        \A raw \in ClfOutputs(recs[r].clf, ThresholdEdge \cup Thresholds) :
            (recs[r].is_trained /\ ~raw.raises) =>
                LET p1 == PredictWith(recs[r], raw, t1)
                    p2 == PredictWith(recs[r], raw, t2)
                IN  /\ (p1.id = NoneId) <=> (raw.dist > t1)
                    /\ p1.dist = raw.dist
                    /\ t2 < raw.dist => p2.id = NoneId
                    /\ (t2 < t1 /\ p1.id = NoneId) => p2.id = NoneId

(***************************************************************************)
(* Claims about the training entry points (SpecTrain).                     *)
(***************************************************************************)

\* the identities of the store that a loader with minimum n reads
Qualifying(n) == {i \in 1 .. Len(store) : store[i].known /\ store[i].nImg >= n}
BelowMinimum(n) == {i \in 1 .. Len(store) : store[i].known /\ store[i].nImg < n}

\* C4: after a training-data load an identity with fewer image files than
\* the loader's minimum has no label, no sample in the face/label
\* accumulators and no entry in the resulting label map (the script's
\* label_mapping, the service's student_ids), at any position of the
\* enumeration.
C4_BelowMinimumExcluded ==
    /\ trainRes.entry = "script"
       => /\ \A i \in BelowMinimum(SCRIPT_MIN_IMAGES) :
                store[i].sid \notin Range(trainRes.mapping)
          /\ Cardinality(SetOf(trainRes.labels)) <= Cardinality(Qualifying(SCRIPT_MIN_IMAGES))
          /\ trainRes.nFaces = Len(trainRes.labels)
    /\ trainRes.entry = "service"
       => /\ \A i \in BelowMinimum(IMAGES_PER_STUDENT) :
                store[i].sid \notin SetOf(trainRes.sids)
          /\ Cardinality(SetOf(trainRes.labels)) <= Cardinality(Qualifying(IMAGES_PER_STUDENT))
          /\ trainRes.nFaces = Len(trainRes.labels)

\* C5: a training run whose loaded data has fewer than 2 distinct labels
\* returns failure, calls neither train nor save_model, and leaves every
\* persisted file as it was, for the script and for TrainingService.
C5_TooFewLabelsFails ==
    [][(/\ trainRes' # trainRes
        /\ trainRes'.entry \in {"script", "service"}
        /\ Cardinality(SetOf(trainRes'.labels)) < 2)
       => (/\ ~trainRes'.ok
           /\ ~trainRes'.trained
           /\ ~trainRes'.saved
           /\ files' = files)]_vars

\* C16: after a training-data load the labels of the label accumulator
\* are exactly 0 .. k-1, every assigned label (every key of label_mapping,
\* every position of student_ids) has a sample, no two identities share a
\* label, and faces and labels have the same length, also with unreadable
\* images.
C16_DenseLabels ==
    trainRes.entry # "none" =>
        LET ls == SetOf(trainRes.labels)
            k == Cardinality(ls)
        IN  /\ ls = 0 .. (k - 1)
            /\ trainRes.nFaces = Len(trainRes.labels)
            /\ trainRes.entry = "script"
               => /\ DOMAIN trainRes.mapping = ls
                  /\ Cardinality(Range(trainRes.mapping)) = k
            /\ trainRes.entry = "service"
               => /\ Len(trainRes.sids) = k
                  /\ Cardinality(SetOf(trainRes.sids)) = k

(***************************************************************************)
(* Claims about the attendance store and the accept paths (SpecSess).      *)
(***************************************************************************)

\* the window has a session and identity id was accepted at least n times
\* since the session was set
AcceptedInSession(id, n) ==
    win.kind # "none" /\ win.session # NoSession /\ accepts[id] >= n

KnownAt(e, lo, hi) ==
    /\ e.op \in {"accept", "reject"}
    /\ ~e.raw.raises
    /\ e.raw.label \in DOMAIN recs[1].label_map
    /\ lo <= 10 * e.raw.dist /\ 10 * e.raw.dist < hi

\* C12: in a window with a session, a prediction for a known student whose
\* distance d satisfies T <= d < 1.6 T is accepted, and when the student is
\* not in the seen-set a store write is issued for it.
C12_BandAccepted ==
    [][(/\ KnownAt(ev', 10 * RECOGNITION_THRESHOLD, 16 * RECOGNITION_THRESHOLD)
        /\ win.session # NoSession
        /\ recs[1].label_map[ev'.raw.label] \in DbStudents \ win.seen)
       => (ev'.op = "accept" /\ ev'.called /\ ev'.wrote)]_vars

\* C13: in both windows, a region whose classifier distance d satisfies
\* d >= 1.6 T is never accepted, and its frame step calls no store
\* operation and leaves the store and the seen-set as they were.
C13_NoWriteBeyondBand ==
    [][(/\ ev'.op \in {"accept", "reject", "skip"}
        /\ ~ev'.raw.raises
        /\ 10 * ev'.raw.dist >= 16 * RECOGNITION_THRESHOLD)
       => (/\ ev'.op # "accept"
           /\ ~ev'.called
           /\ rows' = rows /\ writes' = writes /\ win'.seen = win.seen)]_vars

\* take_attendance.py has rejected a known student, not yet marked, whose
\* distance is 1.6 T or more
C13_Witness ==
    /\ win.kind = "full" /\ win.running
    /\ KnownAt(ev, 16 * RECOGNITION_THRESHOLD, 100 * RECOGNITION_THRESHOLD)
    /\ ev.op = "reject" /\ ~ev.called
    /\ recs[1].label_map[ev.raw.label] \in DbStudents \ win.seen
    /\ writes[<<recs[1].label_map[ev.raw.label], win.session>>] = 0

\* C15: a region whose width/height ratio is outside [0.7, 1.3], or with a
\* side below the size floor or above 400 px, is not among the regions
\* detect_faces returns to a window (the regions the window skips or
\* predicts on), and is never given to predict.
C15_InvalidRegionNeverPredicted ==
    [][/\ ev'.op \in {"accept", "reject", "skip"} => SimpleValid(ev'.rect)
       /\ ev'.op \in {"accept", "reject"} => SimpleValid(ev'.rect)]_vars

\* C17: while an attendance window is open, no step (of a training run or
\* any other) changes the recognizer the window predicts with: the run
\* trains and saves the recognizer of its own TrainingService.
C17_SessionModelUntouched ==
    [][win.kind # "none" => recs'[1] = recs[1]]_vars

\* a face was accepted in a window while a training run had trained its own
\* recognizer and not yet saved it
C17_Witness ==
    /\ win.kind # "none" /\ win.running
    /\ appTrain = "trained"
    /\ recs[TrainerOf(1)].is_trained
    /\ recs[TrainerOf(1)].clf # recs[1].clf
    /\ recs[1] = SessionRecognizer
    /\ accepts[101] > 0

\* C18: at most one component holds an open camera.
C18_OneCameraOwner == Cardinality(cams) <= 1

\* C19: when a session or a registration capture has ended (stop, close,
\* cancel, destroy) or has failed to start, its camera is released.
C19_CameraReleasedOnExit ==
    [][/\ ev'.op \in {"stop", "close", "start_failed", "open_failed"} => "win" \notin cams'
       /\ ev'.op \in {"reg_stop", "reg_close", "reg_start_failed"} => "reg" \notin cams']_vars

\* C20: after a failed camera read in a running window the next run of the
\* frame callback is scheduled.
C20_FailedReadReschedules ==
    [][(ev'.op = "read_failed" /\ win'.running) => win'.polling]_vars

(***************************************************************************)
(* Claims about the loops of the registration window (SpecCapture).        *)
(***************************************************************************)

\* C21: whatever the camera does, a Stop or Cancel clicked while
\* _capture_images loops is eventually processed and the loop ends.
C21_StopEndsCaptureLoop ==
    (capture.looping /\ capture.stopReq) ~> ~capture.looping

(***************************************************************************)
(* Claims about concurrent mark_present calls (SpecRace).                  *)
(***************************************************************************)

\* C22: for every (student, session) pair and every interleaving of the
\* reads and inserts of two callers, at most one call has written and
\* reported success, and the store holds at most one record for the pair.
C22_OneWriterWins ==
    \A p \in Pairs :
        /\ rows[p] <= 1
        /\ writes[p] <= 1
        /\ Cardinality({c \in Callers : /\ mp[c].pc = "done" /\ mp[c].ret
                                        /\ <<mp[c].id, mp[c].session>> = p}) <= 1

(***************************************************************************)
(* Claims about the seen-set of a window and the store (SpecSess).         *)
(***************************************************************************)

\* C23: when the session of a window changes, the seen-set becomes the
\* identities already recorded for the new session, and so an accepted
\* identity with a student row has a record for the session of the window.
C23_SeenSetPerSession ==
    /\ [][(win'.kind # "none" /\ win'.session # win.session)
            => win'.seen = LoadSessionAttendance(rows', win'.session)]_vars
    /\ [][(ev'.op = "accept" /\ win'.session # NoSession /\ ev'.id \in DbStudents)
            => rows'[<<ev'.id, win'.session>>] >= 1]_vars

\* C24: every identity in the seen-set of a window has an attendance record
\* for the session of the window, so the size of the seen-set (the count
\* reported at close) is the number of identities marked.
C24_SeenSetRecorded ==
    \A id \in win.seen :
        /\ win.session # NoSession
        /\ rows[<<id, win.session>>] >= 1

(***************************************************************************)
(* Claims about the training entry points (SpecTrain).                     *)
(***************************************************************************)

\* C25: after a successful training run of any entry point the model, the
\* metadata and the backup copy written by that run are on disk.
C25_BackupAfterTraining ==
    trainRes.ok =>
        LET path == IF trainRes.entry = "script" THEN SCRIPT_MODEL_PATH
                    ELSE TRAINED_MODEL_PATH
        IN  /\ files[path].kind = "blob" /\ files[path].run = runs
            /\ files[METADATA_PATH].kind = "meta" /\ files[METADATA_PATH].run = runs
            /\ files[BACKUP_PATH] = files[path]

(***************************************************************************)
(* Claims about extract_face (SpecExtract).                                *)
(***************************************************************************)

\* C26: extract_face returns a sub-image for every image and region; its
\* bounds are the region grown by the margin and clamped to the image, and
\* a region inside the image with margin 0 gives exactly w x h.
C26_ExtractFaceClamped ==
    xf.called =>
        LET x == xf.rect[1]
            y == xf.rect[2]
            w == xf.rect[3]
            h == xf.rect[4]
            r == xf.res
        IN  /\ ~r.none
            /\ r.x0 = Max(0, x - xf.margin)
            /\ r.x1 = Min(xf.img[1], x + w + xf.margin)
            /\ r.y0 = Max(0, y - xf.margin)
            /\ r.y1 = Min(xf.img[2], y + h + xf.margin)
            /\ (/\ xf.margin = 0 /\ x >= 0 /\ y >= 0
                /\ x + w <= xf.img[1] /\ y + h <= xf.img[2])
               => (r.x1 - r.x0 = w /\ r.y1 - r.y0 = h)

\* C27: after TrainingService.train_model succeeded, the label map of its
\* recognizer maps every label to the student whose images were trained
\* under that label (the student enumerated at the label's position).
C27_LabelMapsToItsStudent ==
    (trainRes.entry = "service" /\ trainRes.ok) =>
        \A L \in SetOf(trainRes.labels) :
            /\ L \in DOMAIN recs[1].label_map
            /\ recs[1].label_map[L] = trainRes.sids[L + 1]

(***************************************************************************)
(* Claims about the main window's training and the sessions after it       *)
(* (SpecUi).                                                               *)
(***************************************************************************)

\* C28: after the Train Model run of the main window succeeded, an
\* attendance window opened now loads the model and the label map that run
\* wrote.
C28_SessionLoadsTrainedModel ==
    (trainRes.entry = "service" /\ trainRes.ok /\ trainRes.saved /\ appTrain = "idle") =>
        LET m == SimpleLoadModel(files, TRUE)
            t == recs[TrainerOf(1)]
        IN  /\ m.ok
            /\ m.rec.is_trained
            /\ m.rec.clf = t.clf
            /\ m.rec.label_map = t.label_map

(***************************************************************************)
(* Claims about the model state of a FaceRecognizer (SpecRec).             *)
(***************************************************************************)

\* C29: whenever a FaceRecognizer is trained, every label its classifier
\* can return has an entry in the label map.
C29_EveryLabelMapped ==
    \A r \in RecIds :
        recs[r].is_trained => recs[r].clf.labels \subseteq DOMAIN recs[r].label_map

\* C30: a load_model call that returns failure leaves is_trained, the label
\* map and the classifier of the object as they were.
C30_FailedLoadChangesNothing ==
    [][(last'.op = "load" /\ ~last'.ok) => recs'[last'.r] = recs[last'.r]]_vars

=============================================================================
